---- MODULE Spec2Model ----
(***************************************************************************)
(* InvisioVault: LSB steganography engine (SteganographyEngine), the       *)
(* background task that sequences it (WorkerThread) and the window         *)
(* handlers that start a task and receive its finished event (MainWindow). *)
(*                                                                         *)
(* Byte strings are sequences over 0..255, images are row-major pixel      *)
(* grids of three 8-bit channels.                                          *)
(***************************************************************************)
EXTENDS Integers, Sequences, FiniteSets, TLC

(***************************************************************************)
(* Bounds of the model.                                                    *)
(***************************************************************************)
MaxPayload == 2      \* longest payload handed to the codec on its own
MaxData == 2         \* longest plaintext handed to the cipher on its own
MaxFiles == 2        \* most files in the list of the hide tab
MaxRuns == 2         \* most tasks started in one session
IntCap == 1000000    \* integers read from a buffer saturate here

(***************************************************************************)
(* Python byte-string primitives.                                          *)
(***************************************************************************)
Min(a, b) == IF a < b THEN a ELSE b

Max(a, b) == IF a > b THEN a ELSE b

\* s[a:b] with 0-based, end-exclusive, clamped indices
Slice(s, a, b) == SubSeq(s, a + 1, Min(b, Len(s)))

\* s[a:]
SliceFrom(s, a) == SubSeq(s, a + 1, Len(s))

\* s.startswith(prefix)
StartsWith(s, prefix) ==
    /\ Len(s) >= Len(prefix)
    /\ SubSeq(s, 1, Len(prefix)) = prefix

\* n.to_bytes(4, byteorder='big')
ToBytes4(n) ==
    << (n \div 16777216) % 256, (n \div 65536) % 256, (n \div 256) % 256, n % 256 >>

\* int.from_bytes(s, byteorder='big'), for a string of any length (0 for b'').
\* Python integers are unbounded; every value of IntCap or more is kept as
\* IntCap, which is larger than every length and index of the model, so all
\* comparisons with lengths and offsets come out as in the code.
RECURSIVE FromBytes(_)
FromBytes(s) ==
    IF Len(s) = 0 THEN 0
    ELSE LET hi == FromBytes(SubSeq(s, 1, Len(s) - 1))
         IN  IF hi >= IntCap \div 256 THEN IntCap
             ELSE Min(256 * hi + s[Len(s)], IntCap)

\* (byte >> i) & 1
BitOf(byte, i) == (byte \div (2 ^ i)) % 2

(***************************************************************************)
(* Images: [width, height, pixels], pixels[i * width + j + 1] is the       *)
(* <<R, G, B>> triple numpy addresses as pixels[i, j, :].                  *)
(***************************************************************************)
Pix(img, i, j, k) == img.pixels[i * img.width + j + 1][k + 1]

NumPixels(img) == img.width * img.height

\* max_bytes of can_hide_data
MaxBytes(img) == (img.width * img.height * 3) \div 8

\* a capacity test that reserves no room for the four bytes of the length
CanHideNoReserve(img, data_size) == MaxBytes(img) >= data_size

\* SteganographyEngine.can_hide_data on an image that opens
can_hide_data(img, data_size) == MaxBytes(img) >= data_size + 4

(***************************************************************************)
(* SteganographyEngine.hide_data_in_image                                  *)
(***************************************************************************)
\* bits most significant bit first within each byte
DataBitsMsbFirst(full_data) ==
    [b \in 1..(8 * Len(full_data)) |->
        BitOf(full_data[((b - 1) \div 8) + 1], 7 - ((b - 1) % 8))]

\* the bit array of full_data: (byte >> i) & 1 for i in range(8), per byte
DataBits(full_data) ==
    [b \in 1..(8 * Len(full_data)) |->
        BitOf(full_data[((b - 1) \div 8) + 1], (b - 1) % 8)]

\* while len(bits) % 3 != 0: bits.append(0)
PadBits(bits) ==
    bits \o [z \in 1..((3 - (Len(bits) % 3)) % 3) |-> 0]

\* (pixels[i, j, k] & 254) | bit
SetLsb(value, bit) == (value - (value % 2)) + bit

\* The embedding loop.  The walk is row-major and idx grows by 3 for each
\* pixel visited, so the pixel with row-major index p is visited with
\* idx = 3 * p, and the walk ends at the first pixel with idx >= len(bits).
EmbedPixels(img, bits) ==
    [p \in 1..NumPixels(img) |->
        LET idx == 3 * (p - 1)
            px  == img.pixels[p]
        IN  IF idx < Len(bits)
            THEN [k \in 1..3 |->
                    IF k - 1 < Min(3, Len(bits) - idx)
                    THEN SetLsb(px[k], bits[idx + k])
                    ELSE px[k]]
            ELSE px]

NoImage == [width |-> 0, height |-> 0, pixels |-> << >>]

\* the output paths whose extension makes Image.save write a JPEG file
JpegPaths == {"output.jpg"}

\* Stand-in for the lossy coding of JPEG: a channel value comes back
\* quantised, its low bits are not kept.
JpegSample(value) == (value \div 4) * 4

\* Image.fromarray(pixels).save(output_path), read back by Image.open: PNG
\* and BMP keep every channel value, JPEG does not.
SaveImage(output_path, img) ==
    IF output_path \in JpegPaths
    THEN [img EXCEPT !.pixels =
             [p \in 1..NumPixels(img) |-> [k \in 1..3 |-> JpegSample(img.pixels[p][k])]]]
    ELSE img

\* Returns [ok, image, pixels]: ok is the Boolean the function returns,
\* image is what it saved at output_path (NoImage when nothing was saved),
\* pixels is the array when the embedding loop has ended.
hide_data_in_image(img, output_path, data) ==
    LET data_size == ToBytes4(Len(data))
        full_data == data_size \o data
        pixels == EmbedPixels(img, PadBits(DataBits(full_data)))
    IN  IF ~can_hide_data(img, Len(full_data))
        THEN [ok |-> FALSE, image |-> NoImage, pixels |-> << >>]
        ELSE [ok |-> TRUE,
              image |-> SaveImage(output_path, [img EXCEPT !.pixels = pixels]),
              pixels |-> pixels]

(***************************************************************************)
(* SteganographyEngine.extract_data_from_image                             *)
(***************************************************************************)
\* First scan: whole pixels in row-major order until 32 bits are there.
\* It stops after the first pixel that brings the count to 32 or more, or
\* at the end of the image.
FirstScanPixels(img) == Min((32 + 2) \div 3, NumPixels(img))

FirstScanBits(img) ==
    [b \in 1..(3 * FirstScanPixels(img)) |->
        Pix(img, ((b - 1) \div 3) \div img.width,
                 ((b - 1) \div 3) % img.width,
                 (b - 1) % 3) % 2]

\* byte |= bits[i + j] << j for j in range(8) if i + j < len(bits)
ByteAt(bits, i) ==
    LET Term(j) == IF i + j < Len(bits) THEN bits[i + j + 1] * (2 ^ j) ELSE 0
    IN  Term(0) + Term(1) + Term(2) + Term(3) + Term(4) + Term(5) + Term(6) + Term(7)

\* the four size bytes read from extracted_bits[:32]
SizeBytes(extracted_bits) ==
    LET size_bits == Slice(extracted_bits, 0, 32)
    IN  << ByteAt(size_bits, 0), ByteAt(size_bits, 8),
           ByteAt(size_bits, 16), ByteAt(size_bits, 24) >>

\* a second scan that leaves the last pixel of the image unread
SecondScanStopsEarly(img, first_bits) ==
    Max(0, NumPixels(img) - (Len(first_bits) \div 3) - 1)

\* Second scan: while len(extracted_bits) < total_bits_needed.  Each turn
\* takes the pixel with row-major index len(extracted_bits) // 3, leaves the
\* loop if that is past the last row, and appends the bits of its channels
\* 0, 1, 2 while the count is below total_bits_needed.  Turn t (from 0) so
\* starts with len(first_bits) + 3 * t bits, and only the last turn can
\* append fewer than 3.
SecondScanTurns(img, first_bits) ==
    Max(0, NumPixels(img) - (Len(first_bits) \div 3))

\* a second scan that resumes one bit too early
ResumePixelOffByOne(extracted_count) == (extracted_count - 1) \div 3

\* "len(extracted_bits) // 3": the row-major index of the pixel a turn of
\* the second scan reads
ResumePixel(extracted_count) == extracted_count \div 3

ExtractRemaining(img, first_bits, total_bits_needed) ==
    LET start == Len(first_bits)
        final == IF total_bits_needed <= start THEN start
                 ELSE Min(total_bits_needed,
                          start + 3 * SecondScanTurns(img, first_bits))
    IN  [b \in 1..final |->
            IF b <= start THEN first_bits[b]
            ELSE LET turn == (b - 1 - start) \div 3
                     k == (b - 1 - start) % 3
                     at == start + 3 * turn
                     i == ResumePixel(at) \div img.width
                     j == ResumePixel(at) % img.width
                 IN  Pix(img, i, j, k) % 2]

\* whole bytes of data_bits, least significant bit first
BytesOfBits(data_bits) ==
    [n \in 1..(Len(data_bits) \div 8) |-> ByteAt(data_bits, 8 * (n - 1))]

\* extracted_bits when the second scan has ended
ExtractedBits(img) ==
    LET first_bits == FirstScanBits(img)
        data_size == FromBytes(SizeBytes(first_bits))
        total_bits_needed == Min(32 + (data_size * 8), IntCap)
    IN  ExtractRemaining(img, first_bits, total_bits_needed)

extract_data_from_image(img) ==
    LET first_bits == FirstScanBits(img)
        data_size == FromBytes(SizeBytes(first_bits))
        total_bits_needed == Min(32 + (data_size * 8), IntCap)
        extracted_bits == ExtractedBits(img)
        data_bits == Slice(extracted_bits, 32, total_bits_needed)
    IN  BytesOfBits(data_bits)

(***************************************************************************)
(* SteganographyEngine.derive_key / encrypt_data / decrypt_data            *)
(*                                                                         *)
(* hashlib.pbkdf2_hmac and Crypto.Cipher.AES are library code.  They are   *)
(* represented by small functions that keep what the engine relies on:     *)
(* the key is a function of (password, salt) alone, a key gives a          *)
(* permutation of 16-byte blocks, CBC chains the blocks from the IV, and   *)
(* decrypting under another key gives other bytes, whose padding is        *)
(* usually, but not always, invalid.                                       *)
(***************************************************************************)
\* b"INVISIOVAULT"
ENCRYPTION_HEADER == << 73, 78, 86, 73, 83, 73, 79, 86, 65, 85, 76, 84 >>

\* AES.block_size
BlockSize == 16

\* the length of the salt and of the IV: os.urandom(16)
SaltLen == 16

\* the key length pbkdf2_hmac('sha256', ...) gives by default
KeyLen == 32

\* password.encode(), as a number
PasswordCode(password) ==
    CASE password = "secret" -> 1
      [] password = "wrong"  -> 50
      [] OTHER               -> 7

\* a ^ b on bytes
Xor8(a, b) ==
    LET T(i) == ((BitOf(a, i) + BitOf(b, i)) % 2) * (2 ^ i)
    IN  T(0) + T(1) + T(2) + T(3) + T(4) + T(5) + T(6) + T(7)

XorBytes(x, y) == [i \in 1..Len(x) |-> Xor8(x[i], y[i])]

\* hashlib.pbkdf2_hmac('sha256', password.encode(), salt, 100000)
Pbkdf2(password, salt) ==
    [n \in 1..KeyLen |->
        (PasswordCode(password) * n
            + (IF Len(salt) = 0 THEN 0 ELSE salt[((n - 1) % Len(salt)) + 1])) % 256]

\* derive_key(password, salt) with the salt given: (key, salt)
derive_key(password, salt) == << Pbkdf2(password, salt), salt >>

RoundKey(key, i) == (key[2 * i - 1] + key[2 * i]) % 256

AesEncryptBlock(key, block) ==
    [i \in 1..BlockSize |-> (block[i] + RoundKey(key, i)) % 256]

AesDecryptBlock(key, block) ==
    [i \in 1..BlockSize |-> (block[i] + 256 - RoundKey(key, i)) % 256]

\* padding that adds no block to data of whole blocks
PadToMultiple(data, block_size) ==
    LET padding_len == (block_size - (Len(data) % block_size)) % block_size
    IN  data \o [i \in 1..padding_len |-> padding_len]

\* Crypto.Util.Padding.pad(data, block_size): PKCS#7
Pad(data, block_size) ==
    LET padding_len == block_size - (Len(data) % block_size)
    IN  data \o [i \in 1..padding_len |-> padding_len]

\* cipher.encrypt in CBC mode, prev being the IV or the last cipher block
RECURSIVE CbcEncrypt(_, _, _)
CbcEncrypt(key, prev, plaintext) ==
    IF Len(plaintext) = 0 THEN << >>
    ELSE LET block == AesEncryptBlock(key,
                          XorBytes(SubSeq(plaintext, 1, BlockSize), prev))
         IN  block \o CbcEncrypt(key, block, SliceFrom(plaintext, BlockSize))

\* cipher.decrypt in CBC mode, for a ciphertext of whole blocks
RECURSIVE CbcDecrypt(_, _, _)
CbcDecrypt(key, prev, ciphertext) ==
    IF Len(ciphertext) = 0 THEN << >>
    ELSE LET block == SubSeq(ciphertext, 1, BlockSize)
         IN  XorBytes(AesDecryptBlock(key, block), prev)
                 \o CbcDecrypt(key, block, SliceFrom(ciphertext, BlockSize))

\* The salt and the IV are the two os.urandom(16) draws of encrypt_data.
encrypt_data(data, password, salt, iv) ==
    LET key == derive_key(password, salt)[1]
        encrypted_data == CbcEncrypt(key, iv, Pad(data, BlockSize))
    IN  ENCRYPTION_HEADER \o salt \o iv \o encrypted_data

\* a padding test that looks at the last byte only
UnpadOkLastByte(padded, block_size) ==
    /\ Len(padded) > 0
    /\ Len(padded) % block_size = 0
    /\ padded[Len(padded)] >= 1
    /\ padded[Len(padded)] <= Min(block_size, Len(padded))

\* Crypto.Util.Padding.unpad(padded, block_size) does not raise ValueError
UnpadOk(padded, block_size) ==
    /\ Len(padded) > 0
    /\ Len(padded) % block_size = 0
    /\ LET padding_len == padded[Len(padded)]
       IN  /\ padding_len >= 1
           /\ padding_len <= Min(block_size, Len(padded))
           /\ \A i \in (Len(padded) - padding_len + 1)..Len(padded) :
                  padded[i] = padding_len

Unpad(padded) == SubSeq(padded, 1, Len(padded) - padded[Len(padded)])

ErrInvalidFormat == "Invalid data format"

ErrIncorrectPassword == "Incorrect password or corrupted data"

ErrIvLength == "Incorrect IV length (it must be 16 bytes long)"

Returned(value) == [ok |-> TRUE, value |-> value, error |-> "", derived |-> TRUE]

Raised(message, derived) ==
    [ok |-> FALSE, value |-> << >>, error |-> message, derived |-> derived]

\* a test of the length of the data in place of its first bytes
HasHeaderByLength(encrypted_data) == Len(encrypted_data) >= Len(ENCRYPTION_HEADER)

\* encrypted_data.startswith(ENCRYPTION_HEADER), the first test of decrypt_data
HasHeader(encrypted_data) == StartsWith(encrypted_data, ENCRYPTION_HEADER)

\* Returns [ok, value, error, derived]: the bytes returned, or the message of
\* the ValueError raised; derived tells whether derive_key was called.
decrypt_data(encrypted_data, password) ==
    IF ~HasHeader(encrypted_data)
    THEN Raised(ErrInvalidFormat, FALSE)
    ELSE LET data == SliceFrom(encrypted_data, Len(ENCRYPTION_HEADER))
             salt == Slice(data, 0, 16)
             iv == Slice(data, 16, 32)
             actual_encrypted_data == SliceFrom(data, 32)
             key == derive_key(password, salt)[1]
         IN  IF Len(iv) # BlockSize
             THEN Raised(ErrIvLength, TRUE)      \* AES.new, outside the try
             ELSE IF Len(actual_encrypted_data) % BlockSize # 0
             THEN Raised(ErrIncorrectPassword, TRUE)     \* cipher.decrypt
             ELSE LET padded == CbcDecrypt(key, iv, actual_encrypted_data)
                  IN  IF UnpadOk(padded, BlockSize)
                      THEN Returned(Unpad(padded))
                      ELSE Raised(ErrIncorrectPassword, TRUE)

(***************************************************************************)
(* File names and metadata.  A path is a string of character codes;        *)
(* json.dumps writes the metadata object as                                *)
(*     { filename , size in decimal , timestamp }                          *)
(* and json.loads reads that form back, or fails.                          *)
(***************************************************************************)
Slash == 47

Comma == 44

BraceOpen == 123

BraceClose == 125

\* 1-based position of the last occurrence of ch in s, 0 when there is none
RECURSIVE LastIndexOf(_, _)
LastIndexOf(s, ch) ==
    IF Len(s) = 0 THEN 0
    ELSE IF s[Len(s)] = ch THEN Len(s)
    ELSE LastIndexOf(SubSeq(s, 1, Len(s) - 1), ch)

\* 1-based position of the first occurrence of ch in s, 0 when there is none
FirstIndexOf(s, ch) ==
    IF \E i \in 1..Len(s) : s[i] = ch
    THEN CHOOSE i \in 1..Len(s) : s[i] = ch /\ \A j \in 1..(i - 1) : s[j] # ch
    ELSE 0

\* the whole path taken as the name
WholePath(path) == path

\* os.path.basename(path)
Basename(path) == SliceFrom(path, LastIndexOf(path, Slash))

\* str(n) for n >= 0, as character codes
RECURSIVE Digits(_)
Digits(n) ==
    IF n < 10 THEN << 48 + n >>
    ELSE Append(Digits(n \div 10), 48 + (n % 10))

IsDigit(ch) == ch >= 48 /\ ch <= 57

\* int(text) for a string of decimal digits
RECURSIVE ParseDigits(_)
ParseDigits(text) ==
    IF Len(text) = 0 THEN 0
    ELSE Min(10 * ParseDigits(SubSeq(text, 1, Len(text) - 1))
                 + (text[Len(text)] - 48), IntCap)

\* json.dumps(metadata).encode()
JsonDumps(metadata) ==
    << BraceOpen >> \o metadata.filename \o << Comma >> \o Digits(metadata.size)
        \o << Comma >> \o metadata.timestamp \o << BraceClose >>

NoMetadata == [filename |-> << >>, size |-> 0, timestamp |-> << >>]

\* json.loads(metadata_bytes.decode()): [status, value] with status "ok" (an
\* object with the three keys), "empty" (the object {}, which has no key),
\* "unicode" (UnicodeDecodeError) or "json" (JSONDecodeError)
JsonLoads(text) ==
    LET inner == SubSeq(text, 2, Len(text) - 1)
        c1 == FirstIndexOf(inner, Comma)
        c2 == LastIndexOf(inner, Comma)
        size_text == SubSeq(inner, c1 + 1, c2 - 1)
    IN  IF \E i \in 1..Len(text) : text[i] >= 128
        THEN [status |-> "unicode", value |-> NoMetadata]
        ELSE IF Len(text) < 2 \/ text[1] # BraceOpen \/ text[Len(text)] # BraceClose
        THEN [status |-> "json", value |-> NoMetadata]
        ELSE IF Len(inner) = 0
        THEN [status |-> "empty", value |-> NoMetadata]
        ELSE IF c1 = 0 \/ c1 = c2 \/ Len(size_text) = 0
                  \/ \E i \in 1..Len(size_text) : ~IsDigit(size_text[i])
        THEN [status |-> "json", value |-> NoMetadata]
        ELSE [status |-> "ok",
              value |-> [filename |-> SubSeq(inner, 1, c1 - 1),
                         size |-> ParseDigits(size_text),
                         timestamp |-> SliceFrom(inner, c2)]]

(***************************************************************************)
(* SteganographyEngine.prepare_file_data, and extract_file_data called     *)
(* with password None as WorkerThread calls it.                            *)
(***************************************************************************)
\* file is [path, content]; password is "" for None; timestamp is
\* datetime.now().isoformat(); draw is the salt and the IV encrypt_data
\* draws when there is a password
prepare_file_data(file, password, timestamp, draw) ==
    LET file_data == file.content
        metadata == [filename |-> Basename(file.path),
                     size |-> Len(file_data),
                     timestamp |-> timestamp]
        metadata_bytes == JsonDumps(metadata)
        metadata_length == ToBytes4(Len(metadata_bytes))
        combined_data == metadata_length \o metadata_bytes \o file_data
    IN  IF password # ""
        THEN encrypt_data(combined_data, password, draw[1], draw[2])
        ELSE combined_data

ErrInvalidMetadata == "Invalid metadata format"

\* Returns [ok, metadata, content, error]; error is the message of the
\* exception that leaves the call.
extract_file_data(data) ==
    LET metadata_length == FromBytes(Slice(data, 0, 4))
        metadata_bytes == Slice(data, 4, 4 + metadata_length)
        file_data == SliceFrom(data, Min(4 + metadata_length, Len(data)))
        parsed == JsonLoads(metadata_bytes)
    IN  CASE parsed.status \in {"ok", "empty"} ->
                [ok |-> TRUE, has_filename |-> parsed.status = "ok",
                 metadata |-> parsed.value, content |-> file_data, error |-> ""]
          [] parsed.status = "json" ->
                [ok |-> FALSE, has_filename |-> FALSE, metadata |-> NoMetadata,
                 content |-> << >>, error |-> ErrInvalidMetadata]
          [] OTHER ->
                [ok |-> FALSE, has_filename |-> FALSE, metadata |-> NoMetadata,
                 content |-> << >>, error |-> "UnicodeDecodeError"]

(***************************************************************************)
(* The archive: WorkerThread._hide_files, "Combine all files data"         *)
(***************************************************************************)
RECURSIVE ConcatRecords(_)
ConcatRecords(all_files_data) ==
    IF Len(all_files_data) = 0 THEN << >>
    ELSE ToBytes4(Len(Head(all_files_data))) \o Head(all_files_data)
             \o ConcatRecords(Tail(all_files_data))

CombineFiles(all_files_data) ==
    ToBytes4(Len(all_files_data)) \o ConcatRecords(all_files_data)

\* a turn that leaves the four bytes of the length out of the new offset
ReadBlockNoSkip(data, offset) ==
    LET file_size == FromBytes(Slice(data, offset, offset + 4))
    IN  [file_data |-> Slice(data, offset + 4, offset + 4 + file_size),
         offset |-> offset + file_size]

\* One turn of the unpacking loop of _extract_files before the try block:
\* the record block read at offset and the offset after it.
ReadBlock(data, offset) ==
    LET file_size == FromBytes(Slice(data, offset, offset + 4))
    IN  [file_data |-> Slice(data, offset + 4, offset + 4 + file_size),
         offset |-> offset + 4 + file_size]

(***************************************************************************)
(* File paths of the output side: os.path.join, os.path.splitext and the   *)
(* resolution of a path to the file it names.                              *)
(***************************************************************************)
Dot == 46

Underscore == 95

\* os.path.join(directory, name)
PathJoin(directory, name) ==
    IF Len(name) > 0 /\ name[1] = Slash THEN name
    ELSE directory \o << Slash >> \o name

\* os.path.splitext(path): << base, ext >>.  The extension starts at the last
\* dot of the last component, unless only dots precede it in that component.
Splitext(path) ==
    LET sep == LastIndexOf(path, Slash)
        dot == LastIndexOf(path, Dot)
    IN  IF dot > sep /\ (\E i \in (sep + 1)..(dot - 1) : path[i] # Dot)
        THEN << SubSeq(path, 1, dot - 1), SliceFrom(path, dot - 1) >>
        ELSE << path, << >> >>

\* the components of a path, split at the slashes
RECURSIVE Components(_)
Components(path) ==
    LET sep == FirstIndexOf(path, Slash)
    IN  IF sep = 0 THEN << path >>
        ELSE << SubSeq(path, 1, sep - 1) >> \o Components(SliceFrom(path, sep))

\* the directory entries a path leads through, "." and ".." applied
RECURSIVE Walk(_, _)
Walk(stack, components) ==
    IF Len(components) = 0 THEN stack
    ELSE LET c == Head(components)
         IN  IF c = << >> \/ c = << Dot >> THEN Walk(stack, Tail(components))
             ELSE IF c = << Dot, Dot >>
             THEN Walk(SubSeq(stack, 1, Len(stack) - 1), Tail(components))
             ELSE Walk(Append(stack, c), Tail(components))

Resolve(path) == Walk(<< >>, Components(path))

\* the directory holding the entry
Parent(resolved) == SubSeq(resolved, 1, Len(resolved) - 1)

\* "/o", the output directory chosen in the extract tab
OutputDir == << Slash, 111 >>

\* the directories that exist: the root and the output directory
Dirs == { << >>, Resolve(OutputDir) }

\* the path names a directory (open fails), or ends in a slash
NamesDirectory(path) ==
    \/ Resolve(path) \in Dirs
    \/ Len(path) > 0 /\ path[Len(path)] = Slash

\* an existence test that knows the directories only
OnlyDirsExist(files, path) == Resolve(path) \in Dirs

\* os.path.exists(path), files being the files written so far
PathExists(files, path) ==
    \/ Resolve(path) \in DOMAIN files
    \/ Resolve(path) \in Dirs

\* open(path, 'wb') succeeds
CanOpenForWrite(path) ==
    /\ ~NamesDirectory(path)
    /\ Parent(Resolve(path)) \in Dirs

\* "Ensure filename is unique": the while loop of _extract_files
RECURSIVE UniquePath(_, _, _, _, _)
UniquePath(files, file_path, base, ext, counter) ==
    IF ~PathExists(files, file_path) THEN file_path
    ELSE UniquePath(files, base \o << Underscore >> \o Digits(counter) \o ext,
                    base, ext, counter + 1)

(***************************************************************************)
(* Events a WorkerThread emits: status_signal, progress_signal and         *)
(* finished_signal.                                                        *)
(***************************************************************************)
Status(text, num, detail) ==
    [kind |-> "status", text |-> text, num |-> num, detail |-> detail,
     ok |-> FALSE, paths |-> << >>]

Progress(value) ==
    [kind |-> "progress", text |-> "", num |-> value, detail |-> "",
     ok |-> FALSE, paths |-> << >>]

\* finished_signal.emit(success, result): result is the output path, the
\* written paths, or the message
Finished(success, message, paths) ==
    [kind |-> "finished", text |-> "", num |-> 0, detail |-> message,
     ok |-> success, paths |-> paths]

\* an except clause that emits finished(False) before the Error status
FailWithStatusLast(events, message) ==
    events \o << Finished(FALSE, message, << >>), Status("Error", 0, message) >>

\* the except clause that ends a run: the Error status, then finished(False)
FailWith(events, message) ==
    events \o << Status("Error", 0, message), Finished(FALSE, message, << >>) >>

ErrTooSmall == "The selected image is too small to hide all the data"

ErrOperationFailed == "Operation failed"

ErrNoHiddenData == "No hidden data found in the image"

ErrNeedPassword == "This image contains encrypted data. Please provide a password."

\* a share of the whole bar in place of half of it
FullShare(i, count) == ((i + 1) * 100) \div count

\* int((i + 1) / count * 50)
HalfShare(i, count) == ((i + 1) * 50) \div count

(***************************************************************************)
(* State.                                                                  *)
(*   images        the image files, by path (NoImage: no such file)        *)
(*   written       the files under the output side of the file system,     *)
(*                 by resolved path                                        *)
(*   window        MainWindow: the fields of the two tabs as the user      *)
(*                 filled them in, whether each tab is enabled, and which  *)
(*                 task self.worker refers to                              *)
(*   hide_task     the WorkerThread("hide", params) last created           *)
(*   extract_task  the WorkerThread("extract", params) last created        *)
(*   started       how many tasks were started                             *)
(*   origin        for the properties: what the image at the output path   *)
(*                 was made from                                           *)
(*   eng           a direct use of the engine's static methods: the        *)
(*                 arguments of the calls and what they returned           *)
(***************************************************************************)
VARIABLES images, written, window, hide_task, extract_task, started, origin, eng

appVars == << images, written, window, hide_task, extract_task, started, origin >>

vars == << images, written, window, hide_task, extract_task, started, origin, eng >>

\* the output paths of the hide tab: the save dialog offers *.png, *.jpg,
\* *.jpeg and *.bmp
OutputPaths == {"output.png", "output.jpg"}

\* the carrier image of the hide tab, and the output path of the hide tab,
\* which is also the image of the extract tab
ImagePaths == {"carrier"} \cup OutputPaths

\* what an image with a payload was made from: the records of the archive
\* (each [file, damage, timestamp]), the count the archive declares, the
\* password of the envelope ("" for none) and the damage done to the envelope
NoOrigin ==
    [valid |-> FALSE, records |-> << >>, count |-> 0, password |-> "",
     damage |-> "none"]

NoFiles == [p \in {} |-> << >>]

NoHideTask ==
    [pc |-> "none", image_path |-> "", output_path |-> "", files |-> << >>,
     password |-> "", i |-> 0, all_files_data |-> << >>, combined_data |-> << >>, events |-> << >>,
     \* for the properties: the file and the timestamp of each record, the
     \* images there were when the task started, and whether
     \* hide_data_in_image was called
     prepared |-> << >>, images_before |-> << >>, embed_called |-> FALSE]

NoExtractTask ==
    [pc |-> "none", image_path |-> "", password |-> "", data |-> << >>,
     num_files |-> 0, offset |-> 0, i |-> 0, extracted_files |-> << >>,
     events |-> << >>,
     \* for the properties: what the image read was made from, the files
     \* there were when the task started, whether decrypt_data was called,
     \* what extract_file_data returned, call by call, and the bytes
     \* extract_data_from_image returned
     origin |-> NoOrigin, written_before |-> NoFiles, decrypt_called |-> FALSE,
     unpacked |-> << >>, decoded |-> << >>]

NoWindow ==
    [hide_image_path |-> "", hide_output_path |-> "", hide_files_list |-> << >>,
     hide_password |-> "", extract_image_path |-> "", extract_password |-> "",
     hide_tab |-> TRUE, extract_tab |-> TRUE, worker |-> "none"]

NoEng == [stage |-> "unused"]

\* the application as it is when the engine is used on its own
AppUnused ==
    /\ images = [p \in ImagePaths |-> NoImage]
    /\ written = NoFiles
    /\ window = NoWindow
    /\ hide_task = NoHideTask
    /\ extract_task = NoExtractTask
    /\ started = 0
    /\ origin = NoOrigin

(***************************************************************************)
(* Inputs.                                                                 *)
(***************************************************************************)
\* byte strings over alphabet of length at most n
RECURSIVE BytesUpTo(_, _)
BytesUpTo(alphabet, n) ==
    IF n = 0 THEN { << >> }
    ELSE LET shorter == BytesUpTo(alphabet, n - 1)
         IN  shorter \cup { Append(s, b) : s \in shorter, b \in alphabet }

\* channel values of the carrier images: dark, bright and mixed pixels
Pattern(pat, p, k) ==
    CASE pat = "dark"   -> 0
      [] pat = "bright" -> 255
      [] OTHER          -> (37 * p + 101 * k + 13) % 256

CarrierImage(w, h, pat) ==
    [width |-> w, height |-> h,
     pixels |-> [p \in 1..(w * h) |-> [k \in 1..3 |-> Pattern(pat, p, k)]]]

Patterns == {"dark", "bright", "mixed"}

\* width, height: capacities of 3 to 10 + MaxPayload bytes
CodecDims ==
    { <<3, 3>>, <<4, 3>>, <<3, 5>>, <<4, 4>>, <<7, 3>>, <<2, 11>>, <<8, 3>>,
      <<3, 9>>, <<5, 6>>, <<4, 8>>, <<7, 5>> }

CodecImages == { CarrierImage(d[1], d[2], pat) : d \in CodecDims, pat \in Patterns }

CodecPayloads == BytesUpTo({0, 90, 255}, MaxPayload)

(***************************************************************************)
(* The codec used on its own: hide_data_in_image, then                     *)
(* extract_data_from_image on the image it saved; or                       *)
(* extract_data_from_image on an image as found.                           *)
(***************************************************************************)
CodecInit ==
    /\ AppUnused
    /\ \E img \in CodecImages, output_path \in OutputPaths, data \in CodecPayloads :
         eng = [stage |-> "input", image |-> img, output_path |-> output_path,
                data |-> data,
                hidden |-> [ok |-> FALSE, image |-> NoImage, pixels |-> << >>],
                extracted |-> << >>, bits |-> << >>]

CodecHide ==
    /\ UNCHANGED appVars
    /\ eng.stage = "input"
    /\ eng' = [eng EXCEPT !.stage = "hidden",
                          !.hidden = hide_data_in_image(eng.image, eng.output_path,
                                                       eng.data)]

CodecExtract ==
    /\ UNCHANGED appVars
    /\ eng.stage = "hidden"
    /\ eng.hidden.ok
    /\ eng' = [eng EXCEPT !.stage = "extracted",
                          !.extracted = extract_data_from_image(eng.hidden.image),
                          !.bits = ExtractedBits(eng.hidden.image)]

CodecExtractRaw ==
    /\ UNCHANGED appVars
    /\ eng.stage = "input"
    /\ eng' = [eng EXCEPT !.stage = "raw",
                          !.extracted = extract_data_from_image(eng.image),
                          !.bits = ExtractedBits(eng.image)]

CodecNext == CodecHide \/ CodecExtract \/ CodecExtractRaw

SpecCodec == CodecInit /\ [][CodecNext]_vars

(***************************************************************************)
(* The cipher used on its own: encrypt_data, then decrypt_data on the      *)
(* envelope as written or after it was damaged, with any password; or      *)
(* decrypt_data on bytes that are no envelope.                             *)
(***************************************************************************)
Passwords == {"secret", "wrong", "other"}

Constant16(b) == [i \in 1..SaltLen |-> b]

\* what os.urandom(16) may return
Salts == { Constant16(0), [i \in 1..16 |-> (11 * i + 5) % 256] }

IVs == { Constant16(0), Constant16(255), [i \in 1..16 |-> (29 * i + 3) % 256] }

\* short plaintexts, and plaintexts around one block
CipherData ==
    BytesUpTo({0, 16, 255}, MaxData)
        \cup { [i \in 1..n |-> (i * 7) % 256] : n \in {15, 16, 17} }

\* s with the byte at 1-based position i changed
FlipByte(s, i) == [s EXCEPT ![i] = (s[i] + 1) % 256]

HeaderEnd == Len(ENCRYPTION_HEADER)

CiphertextStart == Len(ENCRYPTION_HEADER) + 32

CiphertextDamage == {"flip_first", "flip_last", "cut_one", "cut_all"}

OtherDamage == {"magic", "cut_magic", "cut_iv"}

Damaged(kind, envelope) ==
    CASE kind = "flip_first" -> FlipByte(envelope, CiphertextStart + 1)
      [] kind = "flip_last"  -> FlipByte(envelope, Len(envelope))
      [] kind = "cut_one"    -> SubSeq(envelope, 1, Len(envelope) - 1)
      [] kind = "cut_all"    -> SubSeq(envelope, 1, CiphertextStart)
      [] kind = "magic"      -> FlipByte(envelope, HeaderEnd)
      [] kind = "cut_magic"  -> SubSeq(envelope, 1, HeaderEnd - 1)
      [] OTHER               -> SubSeq(envelope, 1, CiphertextStart - 1)

NoResult == [ok |-> FALSE, value |-> << >>, error |-> "", derived |-> FALSE]

CipherInit ==
    /\ AppUnused
    /\ \E data \in CipherData, password \in Passwords :
         eng = [stage |-> "input", data |-> data, password |-> password,
                envelope |-> << >>, blob |-> data, damage |-> "none",
                password2 |-> password, result |-> NoResult]

CipherEncrypt ==
    /\ UNCHANGED appVars
    /\ eng.stage = "input"
    /\ \E salt \in Salts, iv \in IVs :
         LET envelope == encrypt_data(eng.data, eng.password, salt, iv)
         IN  eng' = [eng EXCEPT !.stage = "encrypted",
                                !.envelope = envelope, !.blob = envelope]

CipherDamage ==
    /\ UNCHANGED appVars
    /\ eng.stage = "encrypted"
    /\ \E kind \in CiphertextDamage \cup OtherDamage :
         eng' = [eng EXCEPT !.stage = "damaged", !.damage = kind,
                            !.blob = Damaged(kind, eng.envelope)]

CipherDecrypt ==
    /\ UNCHANGED appVars
    /\ eng.stage \in {"encrypted", "damaged"}
    /\ \E password2 \in Passwords :
         eng' = [eng EXCEPT !.stage = "decrypted", !.password2 = password2,
                            !.result = decrypt_data(eng.blob, password2)]

CipherDecryptRaw ==
    /\ UNCHANGED appVars
    /\ eng.stage = "input"
    /\ \E password2 \in Passwords :
         eng' = [eng EXCEPT !.stage = "decrypted", !.password2 = password2,
                            !.result = decrypt_data(eng.blob, password2)]

CipherNext == CipherEncrypt \/ CipherDamage \/ CipherDecrypt \/ CipherDecryptRaw

SpecCipher == CipherInit /\ [][CipherNext]_vars

(***************************************************************************)
(* The application: its inputs.                                            *)
(***************************************************************************)
\* the files the user can add to the list: "/x/a", "/y/b" and "/y/a"
InputFile(id) ==
    CASE id = 1 -> [path |-> << Slash, 120, Slash, 97 >>, content |-> << 1, 2 >>]
      [] id = 2 -> [path |-> << Slash, 121, Slash, 98 >>, content |-> << 255 >>]
      [] OTHER  -> [path |-> << Slash, 121, Slash, 97 >>, content |-> << >>]

FileIds == {1, 2, 3}

\* the lists of the hide tab: add_files_to_hide never adds a path twice
RECURSIVE ListsUpTo(_)
ListsUpTo(n) ==
    IF n = 0 THEN { << >> }
    ELSE LET shorter == ListsUpTo(n - 1)
         IN  shorter \cup
             { Append(l, id) : l \in { m \in shorter : Len(m) = n - 1 },
                               id \in FileIds }

NoRepeat(l) == \A a, b \in 1..Len(l) : a # b => l[a] # l[b]

FileLists == { l \in ListsUpTo(MaxFiles) : Len(l) > 0 /\ NoRepeat(l) }

\* the password field: "" is the empty field, which the window turns into None
HidePasswords == {"", "secret"}

ExtractPasswords == {"", "secret", "wrong"}

\* datetime.datetime.now().isoformat(): the time advances with the tasks
\* started
Now == Digits(started)

\* the two os.urandom(16) draws of one encrypt_data call: << salt, iv >>
RandomDraws ==
    { << Constant16(0), Constant16(0) >>,
      << [i \in 1..16 |-> (11 * i + 5) % 256], Constant16(255) >> }

\* the draw named where none is used
AnyDraw == CHOOSE draw \in RandomDraws : TRUE

(***************************************************************************)
(* The record functions used on their own: prepare_file_data on a file,    *)
(* then extract_file_data on the bytes it returned.                        *)
(***************************************************************************)
\* files "/x/a", "a", "/y/b.c" and "x/y/ab", with contents that hold the
\* bytes of the metadata syntax and bytes that are no text
RecordInit ==
    /\ AppUnused
    /\ \E path \in { << Slash, 120, Slash, 97 >>, << 97 >>,
                      << Slash, 121, Slash, 98, Dot, 99 >>,
                      << 120, Slash, 121, Slash, 97, 98 >> },
          content \in BytesUpTo({0, Comma, BraceClose, 255}, MaxData),
          timestamp \in { Digits(0), Digits(12) } :
         eng = [stage |-> "input",
                file |-> [path |-> path, content |-> content],
                timestamp |-> timestamp, record |-> << >>,
                result |-> [ok |-> FALSE, has_filename |-> FALSE,
                            metadata |-> NoMetadata, content |-> << >>,
                            error |-> ""]]

RecordPrepare ==
    /\ UNCHANGED appVars
    /\ eng.stage = "input"
    /\ eng' = [eng EXCEPT !.stage = "prepared",
                          !.record = prepare_file_data(eng.file, "", eng.timestamp,
                                                       AnyDraw)]

RecordExtract ==
    /\ UNCHANGED appVars
    /\ eng.stage = "prepared"
    /\ eng' = [eng EXCEPT !.stage = "extracted",
                          !.result = extract_file_data(eng.record)]

RecordNext == RecordPrepare \/ RecordExtract

SpecRecord == RecordInit /\ [][RecordNext]_vars

\* the carrier images: 24 and 120 bytes of capacity
Carriers == { CarrierImage(8, 8, "mixed"), CarrierImage(20, 16, "bright") }

\* The hide tab names a carrier image, a list of files and maybe a password;
\* the extract tab names the output path of the hide tab and maybe a password.
Init ==
    /\ \E carrier \in Carriers :
         images = [p \in ImagePaths |-> IF p = "carrier" THEN carrier ELSE NoImage]
    /\ written = NoFiles
    /\ \E files \in FileLists, hide_password \in HidePasswords,
          extract_password \in ExtractPasswords, output_path \in OutputPaths :
         window = [NoWindow EXCEPT !.hide_image_path = "carrier",
                                   !.hide_output_path = output_path,
                                   !.hide_files_list = files,
                                   !.hide_password = hide_password,
                                   !.extract_image_path = output_path,
                                   !.extract_password = extract_password]
    /\ hide_task = NoHideTask
    /\ extract_task = NoExtractTask
    /\ started = 0
    /\ origin = NoOrigin
    /\ eng = NoEng

\* The same, with an extract tab that may also name the carrier, an image
\* that is there before any hide run; the carrier holds no envelope, so the
\* password field is empty with it.
InitAnyImage ==
    /\ \E carrier \in Carriers :
         images = [p \in ImagePaths |-> IF p = "carrier" THEN carrier ELSE NoImage]
    /\ written = NoFiles
    /\ \E files \in FileLists, hide_password \in HidePasswords,
          extract_password \in ExtractPasswords, output_path \in OutputPaths,
          extract_image_path \in ImagePaths :
         /\ extract_image_path \in {"carrier", output_path}
         /\ extract_image_path = "carrier" => extract_password = ""
         /\ window = [NoWindow EXCEPT !.hide_image_path = "carrier",
                                      !.hide_output_path = output_path,
                                      !.hide_files_list = files,
                                      !.hide_password = hide_password,
                                      !.extract_image_path = extract_image_path,
                                      !.extract_password = extract_password]
    /\ hide_task = NoHideTask
    /\ extract_task = NoExtractTask
    /\ started = 0
    /\ origin = NoOrigin
    /\ eng = NoEng

(***************************************************************************)
(* MainWindow.start_hiding_files and WorkerThread._hide_files              *)
(***************************************************************************)
\* os.path.isfile(image_path), for the text of a path field
IsImageFile(path) == path \in ImagePaths /\ images[path] # NoImage

\* a start that leaves the hide tab enabled
HideStartedTabEnabled(win) == [win EXCEPT !.worker = "hide"]

\* a start that disables the other tab
HideStartedOtherTab(win) == [win EXCEPT !.worker = "hide", !.extract_tab = FALSE]

\* "self.worker = WorkerThread("hide", params)" and
\* "self.hide_tab.setEnabled(False)"
HideStarted(win) == [win EXCEPT !.worker = "hide", !.hide_tab = FALSE]

start_hiding_files ==
    /\ window.hide_tab
    /\ started < MaxRuns
    /\ IsImageFile(window.hide_image_path)
    /\ window.hide_output_path # ""
    /\ Len(window.hide_files_list) > 0
    /\ hide_task' = [NoHideTask EXCEPT !.pc = "prepare",
                                       !.image_path = window.hide_image_path,
                                       !.output_path = window.hide_output_path,
                                       !.images_before = images,
                                       !.files = window.hide_files_list,
                                       !.password = window.hide_password]
    /\ window' = HideStarted(window)
    /\ started' = started + 1
    /\ UNCHANGED << images, written, extract_task, origin, eng >>

\* a call that hands the password of the run to prepare_file_data
RecordPasswordGiven(password) == password

\* the password argument of "prepare_file_data(file_path, None)": none,
\* "Don't encrypt individual files"
RecordPassword(password) == ""

\* one turn of "for i, file_path in enumerate(files)"
HidePrepareFile ==
    /\ hide_task.pc = "prepare"
    /\ \E draw \in RandomDraws :
       LET i == hide_task.i
           count == Len(hide_task.files)
           password == RecordPassword(hide_task.password)
           file_data == prepare_file_data(InputFile(hide_task.files[i + 1]),
                                          password, Now, draw)
       IN
       /\ password = "" => draw = AnyDraw
       /\ hide_task' =
               [hide_task EXCEPT
                   !.events = @ \o << Status("Preparing file", i + 1, ""),
                                      Progress(HalfShare(i, count)) >>,
                   !.all_files_data = Append(@, file_data),
                   !.prepared = Append(@, [file |-> hide_task.files[i + 1],
                                           damage |-> "none", timestamp |-> Now]),
                   !.i = i + 1,
                   !.pc = IF i + 1 = count THEN "combine" ELSE "prepare"]
    /\ UNCHANGED << images, written, window, extract_task, started, origin, eng >>

\* an encryption step whatever the password
NeedsEncryptionAlways(password) == TRUE

\* "if password:" of _hide_files, the password being None for an empty field
NeedsEncryption(password) == password # ""

\* "Combine all files data"
HideCombine ==
    /\ hide_task.pc = "combine"
    /\ hide_task' =
           [hide_task EXCEPT
               !.combined_data = CombineFiles(hide_task.all_files_data),
               !.pc = IF NeedsEncryption(hide_task.password)
                      THEN "encrypt" ELSE "check"]
    /\ UNCHANGED << images, written, window, extract_task, started, origin, eng >>

\* "Encrypt the combined data if password provided"
HideEncrypt ==
    /\ hide_task.pc = "encrypt"
    /\ \E draw \in RandomDraws :
         hide_task' =
             [hide_task EXCEPT
                 !.events = Append(@, Status("Encrypting data...", 0, "")),
                 !.combined_data = encrypt_data(@, hide_task.password, draw[1], draw[2]),
                 !.pc = "check"]
    /\ UNCHANGED << images, written, window, extract_task, started, origin, eng >>

\* "Check if image can hold the data"; the ValueError goes to the except
\* clause of _hide_files
HideCheck ==
    /\ hide_task.pc = "check"
    /\ IF /\ IsImageFile(hide_task.image_path)
          /\ can_hide_data(images[hide_task.image_path], Len(hide_task.combined_data))
       THEN hide_task' = [hide_task EXCEPT !.pc = "embed"]
       ELSE hide_task' = [hide_task EXCEPT !.pc = "emitted",
                                           !.events = FailWith(@, ErrTooSmall)]
    /\ UNCHANGED << images, written, window, extract_task, started, origin, eng >>

\* "Hide data in image" to the end of _hide_files
HideEmbed ==
    /\ hide_task.pc = "embed"
    /\ LET result == hide_data_in_image(images[hide_task.image_path],
                                        hide_task.output_path,
                                        hide_task.combined_data)
           before == Append(hide_task.events, Status("Hiding data in image...", 0, ""))
       IN  IF result.ok
           THEN /\ images' = [images EXCEPT ![hide_task.output_path] = result.image]
                /\ origin' = [valid |-> TRUE,
                              records |-> hide_task.prepared,
                              count |-> Len(hide_task.prepared),
                              password |-> hide_task.password,
                              damage |-> "none"]
                /\ hide_task' =
                       [hide_task EXCEPT
                           !.pc = "emitted",
                           !.embed_called = TRUE,
                           !.events = before \o
                               << Progress(100),
                                  Status("Files successfully hidden in image", 0, ""),
                                  Finished(TRUE, hide_task.output_path, << >>) >>]
           ELSE /\ UNCHANGED << images, origin >>
                /\ hide_task' =
                       [hide_task EXCEPT
                           !.pc = "emitted",
                           !.embed_called = TRUE,
                           !.events = before \o
                               << Progress(100),
                                  Status("Failed to hide files in image", 0, ""),
                                  Finished(FALSE, ErrOperationFailed, << >>) >>]
    /\ UNCHANGED << written, window, extract_task, started, eng >>

\* MainWindow.hide_operation_finished, the slot of finished_signal
hide_operation_finished ==
    /\ hide_task.pc = "emitted"
    /\ hide_task' = [hide_task EXCEPT !.pc = "handled"]
    /\ window' = [window EXCEPT !.hide_tab = TRUE]
    /\ UNCHANGED << images, written, extract_task, started, origin, eng >>

(***************************************************************************)
(* MainWindow.start_extracting_files and WorkerThread._extract_files       *)
(***************************************************************************)
\* "self.worker = WorkerThread("extract", params)" and
\* "self.extract_tab.setEnabled(False)"
ExtractStarted(win) == [win EXCEPT !.worker = "extract", !.extract_tab = FALSE]

start_extracting_files ==
    /\ window.extract_tab
    /\ started < MaxRuns
    /\ IsImageFile(window.extract_image_path)
    /\ extract_task' = [NoExtractTask EXCEPT !.pc = "decode",
                                             !.image_path = window.extract_image_path,
                                             !.password = window.extract_password,
                                             !.written_before = written]
    /\ window' = ExtractStarted(window)
    /\ started' = started + 1
    /\ UNCHANGED << images, written, hide_task, origin, eng >>

\* "Extract data from image"
ExtractDecode ==
    /\ extract_task.pc = "decode"
    /\ LET image_path == extract_task.image_path
           data == IF IsImageFile(image_path)
                   THEN extract_data_from_image(images[image_path])
                   ELSE << >>
           before == Append(extract_task.events,
                            Status("Extracting data from image...", 0, ""))
           made_from == IF image_path \in OutputPaths THEN origin ELSE NoOrigin
       IN  IF Len(data) = 0
           THEN extract_task' = [extract_task EXCEPT
                                    !.pc = "emitted",
                                    !.origin = made_from,
                                    !.events = FailWith(before, ErrNoHiddenData)]
           ELSE extract_task' = [extract_task EXCEPT
                                    !.pc = "decrypt",
                                    !.data = data,
                                    !.decoded = data,
                                    !.origin = made_from,
                                    !.events = Append(before, Progress(30))]
    /\ UNCHANGED << images, written, window, hide_task, started, origin, eng >>

\* a test of the length of the payload in place of its first bytes
IsEncryptedByLength(data) == Len(data) >= Len(ENCRYPTION_HEADER)

\* "if data.startswith(ENCRYPTION_HEADER):" of _extract_files
IsEncrypted(data) == StartsWith(data, ENCRYPTION_HEADER)

\* no test of the password before decryption
MissingPasswordNever(data, password) == FALSE

\* "if data.startswith(ENCRYPTION_HEADER): if not password: raise"
MissingPassword(data, password) ==
    IsEncrypted(data) /\ password = ""

\* a loop that stops only past the end of the data
LoopBreaksPastEnd(data, offset) == offset > Len(data)

\* "if offset >= len(data): break"
LoopBreaks(data, offset) == offset >= Len(data)

\* a clause that catches the ValueError of extract_file_data only
CaughtValueError(error) == error = ErrInvalidMetadata

\* "except Exception as e" around the unpacking and writing of one record:
\* whether the clause catches the exception with this message
Caught(error) == TRUE

\* "Decrypt data if needed", then the count of the archive
ExtractDecrypt ==
    /\ extract_task.pc = "decrypt"
    /\ LET data == extract_task.data
           encrypted == IsEncrypted(data)
           result == decrypt_data(data, extract_task.password)
           plain == IF encrypted THEN result.value ELSE data
           num_files == FromBytes(Slice(plain, 0, 4))
           before == IF encrypted
                     THEN Append(extract_task.events, Status("Decrypting data...", 0, ""))
                     ELSE extract_task.events
       IN  IF MissingPassword(data, extract_task.password)
           THEN extract_task' = [extract_task EXCEPT
                                    !.pc = "emitted",
                                    !.events = FailWith(@, ErrNeedPassword)]
           ELSE IF encrypted /\ ~result.ok
           THEN extract_task' = [extract_task EXCEPT
                                    !.pc = "emitted",
                                    !.decrypt_called = TRUE,
                                    !.events = FailWith(before, ErrIncorrectPassword)]
           ELSE extract_task' =
                    [extract_task EXCEPT
                        !.pc = "unpack",
                        !.decrypt_called = encrypted,
                        !.data = plain,
                        !.num_files = num_files,
                        !.offset = 4,
                        !.events = before \o
                            << Progress(50), Status("Found hidden files", num_files, "") >>]
    /\ UNCHANGED << images, written, window, hide_task, started, origin, eng >>

\* one turn of "for i in range(num_files)" that does not break
ExtractRecord ==
    /\ extract_task.pc = "unpack"
    /\ extract_task.i < extract_task.num_files
    /\ ~LoopBreaks(extract_task.data, extract_task.offset)
    /\ LET i == extract_task.i
           block == ReadBlock(extract_task.data, extract_task.offset)
           record == extract_file_data(block.file_data)
           joined == PathJoin(OutputDir, record.metadata.filename)
           file_path == UniquePath(written, joined, Splitext(joined)[1],
                                   Splitext(joined)[2], 1)
           error == IF ~record.ok THEN record.error
                    ELSE IF ~record.has_filename THEN "KeyError"
                    ELSE IF ~CanOpenForWrite(file_path) THEN "OSError"
                    ELSE ""
           progress == Progress(50 + HalfShare(i, extract_task.num_files))
       IN  IF error = ""
           THEN /\ written' = [p \in DOMAIN written \cup {Resolve(file_path)} |->
                                  IF p = Resolve(file_path) THEN record.content
                                  ELSE written[p]]
                /\ extract_task' =
                       [extract_task EXCEPT
                           !.offset = block.offset,
                           !.i = i + 1,
                           !.extracted_files = Append(@, file_path),
                           !.unpacked = Append(@, [metadata |-> record.metadata,
                                                   content |-> record.content]),
                           !.events = @ \o << Status("Extracted", i + 1, ""), progress >>]
           ELSE IF ~Caught(error)
           THEN /\ UNCHANGED written
                /\ extract_task' = [extract_task EXCEPT
                                        !.pc = "emitted",
                                        !.events = FailWith(@, error)]
           ELSE /\ UNCHANGED written
                /\ extract_task' =
                       [extract_task EXCEPT
                           !.offset = block.offset,
                           !.i = i + 1,
                           !.unpacked = IF record.ok
                                        THEN Append(@, [metadata |-> record.metadata,
                                                        content |-> record.content])
                                        ELSE @,
                           !.events = @ \o << Status("Error extracting file", i + 1, error),
                                              progress >>]
    /\ UNCHANGED << images, window, hide_task, started, origin, eng >>

\* the end of the loop, by exhaustion or by break, to the end of _extract_files
ExtractFinish ==
    /\ extract_task.pc = "unpack"
    /\ \/ extract_task.i >= extract_task.num_files
       \/ LoopBreaks(extract_task.data, extract_task.offset)
    /\ extract_task' =
           [extract_task EXCEPT
               !.pc = "emitted",
               !.events = @ \o
                   << Status("Successfully extracted files",
                             Len(extract_task.extracted_files), ""),
                      Finished(TRUE, "", extract_task.extracted_files) >>]
    /\ UNCHANGED << images, written, window, hide_task, started, origin, eng >>

\* MainWindow.extract_operation_finished, the slot of finished_signal
extract_operation_finished ==
    /\ extract_task.pc = "emitted"
    /\ extract_task' = [extract_task EXCEPT !.pc = "handled"]
    /\ window' = [window EXCEPT !.extract_tab = TRUE]
    /\ UNCHANGED << images, written, hide_task, started, origin, eng >>

Next ==
    \/ start_hiding_files
    \/ HidePrepareFile
    \/ HideCombine
    \/ HideEncrypt
    \/ HideCheck
    \/ HideEmbed
    \/ hide_operation_finished
    \/ start_extracting_files
    \/ ExtractDecode
    \/ ExtractDecrypt
    \/ ExtractRecord
    \/ ExtractFinish
    \/ extract_operation_finished

Spec == Init /\ [][Next]_vars

\* The application with its scheduling.  A started QThread runs on: a task
\* that has not yet emitted its finished event does not stay at one step for
\* ever (weak fairness of the steps of run(), a step being enabled exactly
\* while the task is at one of them).  The event loop of the window
\* delivers a finished signal that was emitted.  Clicks are under no
\* obligation.
SpecFair ==
    /\ InitAnyImage
    /\ [][Next]_vars
    /\ \/ []<>(hide_task.pc \notin {"prepare", "combine", "encrypt", "check", "embed"})
       \/ []<><< hide_task' # hide_task >>_vars
    /\ \/ []<>(extract_task.pc \notin {"decode", "decrypt", "unpack"})
       \/ []<><< extract_task' # extract_task >>_vars
    /\ WF_vars(hide_operation_finished)
    /\ WF_vars(extract_operation_finished)

(***************************************************************************)
(* Extraction from an image that was made earlier, by this program or by   *)
(* another hand: whole archives, archives that end before the declared     *)
(* count, archives with a record that cannot be unpacked or written,       *)
(* envelopes, and images without a payload.                                *)
(***************************************************************************)
\* the bytes of the record block a description [file, damage, timestamp]
\* stands for
RecordBytes(desc) ==
    LET file == InputFile(desc.file)
        good == prepare_file_data(file, "", desc.timestamp, AnyDraw)
        named(filename) ==
            LET metadata_bytes == JsonDumps([filename |-> filename,
                                             size |-> Len(file.content),
                                             timestamp |-> desc.timestamp])
            IN  ToBytes4(Len(metadata_bytes)) \o metadata_bytes \o file.content
    IN  CASE desc.damage = "none"    -> good
          [] desc.damage = "json"    -> [good EXCEPT ![5] = 120]
          [] desc.damage = "empty"   -> ToBytes4(2) \o << BraceOpen, BraceClose >>
                                            \o file.content
          [] desc.damage = "unicode" -> [good EXCEPT ![6] = 200]
          [] desc.damage = "subdir"  -> named(<< 115, Slash, 97 >>)    \* "s/a"
          [] desc.damage = "parent"  -> named(<< Dot, Dot, Slash, 101 >>)    \* "../e"
          [] OTHER                   -> named(<< Slash, 101 >>)    \* "/e"

RecordDamage == {"json", "empty", "unicode", "subdir"}

Described(file, damage) == [file |-> file, damage |-> damage, timestamp |-> << 48 >>]

\* COUNT, then RECLEN and RECORD for each description
CraftedArchive(count, descs) ==
    ToBytes4(count) \o ConcatRecords([i \in 1..Len(descs) |-> RecordBytes(descs[i])])

\* s with x put before 1-based position pos
InsertAt(s, pos, x) == SubSeq(s, 1, pos - 1) \o << x >> \o SubSeq(s, pos, Len(s))

GoodLists ==
    { [i \in 1..Len(l) |-> Described(l[i], "none")] :
          l \in { m \in ListsUpTo(MaxFiles) : NoRepeat(m) } }

\* whole archives and archives that declare one or three records too many
PlainOrigins ==
    { [valid |-> TRUE, records |-> descs, count |-> Len(descs) + extra,
       password |-> "", damage |-> "none"] :
          descs \in GoodLists, extra \in {0, 1, 3} }

\* archives with one record damaged: alone, or before, between or after
\* two good ones
DamagedLists ==
    { << Described(3, d) >> : d \in RecordDamage }
        \cup { InsertAt(<< Described(1, "none"), Described(2, "none") >>, pos,
                        Described(3, d)) : pos \in 1..3, d \in RecordDamage }

DamagedOrigins ==
    { [valid |-> TRUE, records |-> descs, count |-> Len(descs),
       password |-> "", damage |-> "none"] : descs \in DamagedLists }

\* archives no hide run makes: archives that lost their last byte, so that
\* the last RECLEN points past the end, and archives with a record whose
\* filename is no base name, "../e" or "/e", alone or after a good record
ForeignOrigins ==
    { [valid |-> TRUE, records |-> descs, count |-> Len(descs),
       password |-> "", damage |-> "cut_one"] :
          descs \in { l \in GoodLists : Len(l) > 0 } }
    \cup
    { [valid |-> TRUE, records |-> before \o << Described(2, name) >>,
       count |-> Len(before) + 1, password |-> "", damage |-> "renamed"] :
          before \in { << >>, << Described(1, "none") >> },
          name \in {"parent", "absolute"} }

\* envelopes of a whole archive, as written or with the last byte changed
EnvelopeOrigins ==
    { [valid |-> TRUE,
       records |-> << Described(2, "none"), Described(1, "none") >>,
       count |-> 2, password |-> "secret", damage |-> damage] :
          damage \in {"none", "flip_last"} }

\* the payload of an image made from origin
PayloadOf(org, draw) ==
    LET archive == CraftedArchive(org.count, org.records)
        envelope == encrypt_data(archive, org.password, draw[1], draw[2])
    IN  IF org.password = ""
        THEN IF org.damage = "cut_one" THEN Damaged(org.damage, archive) ELSE archive
        ELSE IF org.damage = "none" THEN envelope
        ELSE Damaged(org.damage, envelope)

StegoCarrier == CarrierImage(20, 16, "mixed")

\* the output directory as the run finds it: empty, or holding a file "a"
FoundFiles ==
    { NoFiles, [p \in { Resolve(PathJoin(OutputDir, << 97 >>)) } |-> << 9 >>] }

ExtractInit ==
    /\ \E org \in PlainOrigins \cup DamagedOrigins \cup ForeignOrigins
                      \cup EnvelopeOrigins \cup {NoOrigin},
          draw \in RandomDraws, pattern \in {"dark", "bright"} :
         /\ org.password = "" => draw = CHOOSE d \in RandomDraws : TRUE
         /\ org.valid => pattern = "dark"
         /\ origin = org
         /\ images = [p \in ImagePaths |->
                         IF p # "output.png" THEN NoImage
                         ELSE IF org.valid
                         THEN hide_data_in_image(StegoCarrier, p, PayloadOf(org, draw)).image
                         ELSE CarrierImage(8, 8, pattern)]
    /\ written \in FoundFiles
    /\ \E extract_password \in ExtractPasswords :
         window = [NoWindow EXCEPT !.extract_image_path = "output.png",
                                   !.extract_password = extract_password]
    /\ hide_task = NoHideTask
    /\ extract_task = NoExtractTask
    /\ started = 0
    /\ eng = NoEng

ExtractNext ==
    \/ start_extracting_files
    \/ ExtractDecode
    \/ ExtractDecrypt
    \/ ExtractRecord
    \/ ExtractFinish
    \/ extract_operation_finished

SpecExtract == ExtractInit /\ [][ExtractNext]_vars

(***************************************************************************)
(* Properties.                                                             *)
(***************************************************************************)
Last(events) == events[Len(events)]

\* the run of the task has ended: its finished event was emitted
Done(task) == task.pc \in {"emitted", "handled"}

\* the (metadata, content) pair a record description stands for
ExpectedPair(desc) ==
    LET file == InputFile(desc.file)
    IN  [metadata |-> [filename |-> Basename(file.path),
                       size |-> Len(file.content),
                       timestamp |-> desc.timestamp],
         content |-> file.content]

IsGood(desc) == desc.damage = "none"

AllGood(org) == \A i \in 1..Len(org.records) : IsGood(org.records[i])

\* the payload can be read with this password: it is no envelope, or an
\* undamaged envelope made with the same password
Readable(org, password) ==
    /\ org.valid
    /\ org.damage = "none"
    /\ org.password = "" \/ org.password = password

\* C1: an extract run on the image a hide run wrote, with the same password
\* choice and into an empty output directory, ends Done and has written one
\* file per input file, in the input order, each with the content of the
\* input file, and nothing else.
C1_EndToEndRoundTrip ==
    ( /\ Done(extract_task)
      /\ extract_task.origin.valid
      /\ extract_task.origin.password = extract_task.password
      /\ extract_task.written_before = NoFiles )
    => LET finished == Last(extract_task.events)
           records == extract_task.origin.records
       IN  /\ finished.kind = "finished"
           /\ finished.ok
           /\ Len(finished.paths) = Len(records)
           /\ \A i \in 1..Len(records) :
                  /\ Resolve(finished.paths[i]) \in DOMAIN written
                  /\ written[Resolve(finished.paths[i])]
                         = InputFile(records[i].file).content
           /\ Cardinality(DOMAIN written) = Len(records)

\* a hide run that ended Done wrote a JPEG file, and the extract run on it
\* with the same password choice into an empty directory ended Failed
C1_FailedRun ==
    /\ Done(extract_task)
    /\ extract_task.origin.valid
    /\ extract_task.origin.password = extract_task.password
    /\ extract_task.written_before = NoFiles
    /\ extract_task.image_path \in JpegPaths
    /\ Last(hide_task.events) = Finished(TRUE, extract_task.image_path, << >>)
    /\ ~Last(extract_task.events).ok
    /\ written = NoFiles

\* the same runs with an output path that is no JPEG path give the files back
C1_LosslessRoundTrip ==
    extract_task.image_path \notin JpegPaths => C1_EndToEndRoundTrip

\* C2: for a payload of n bytes and an image with floor(w*h*3/8) >= n+4,
\* hide_data_in_image produces an image and extract_data_from_image returns
\* the payload from it.
C2_CodecRoundTrip ==
    ( /\ eng.stage \in {"hidden", "extracted"}
      /\ MaxBytes(eng.image) >= Len(eng.data) + 4 )
    => /\ eng.hidden.ok
       /\ eng.stage = "extracted" => eng.extracted = eng.data

\* the image has room for the payload and its four bytes of length, and
\* hide_data_in_image returned False
C2_RefusedPayload ==
    /\ eng.stage = "hidden"
    /\ MaxBytes(eng.image) >= Len(eng.data) + 4
    /\ Len(eng.data) = 2
    /\ ~eng.hidden.ok

\* C3: with floor(w*h*3/8) = n+4, hide_data_in_image succeeds for a payload
\* of n bytes and fails for a payload of n+1 bytes.
C3_CapacityBoundary ==
    eng.stage = "hidden"
    => /\ MaxBytes(eng.image) = Len(eng.data) + 4 => eng.hidden.ok
       /\ MaxBytes(eng.image) = (Len(eng.data) - 1) + 4 => ~eng.hidden.ok

\* the image has exactly n+4 bytes of capacity and the payload of n bytes
\* was refused
C3_RefusedAtBoundary ==
    /\ eng.stage = "hidden"
    /\ MaxBytes(eng.image) = Len(eng.data) + 4
    /\ ~eng.hidden.ok

\* C4: decrypt_data(encrypt_data(data, pw), pw) = data, for every data, the
\* empty one included, and every salt and IV drawn.
C4_CipherRoundTrip ==
    ( /\ eng.stage = "decrypted"
      /\ eng.envelope # << >>
      /\ eng.damage = "none"
      /\ eng.password2 = eng.password )
    => /\ eng.result.ok
       /\ eng.result.value = eng.data

C4_Witness ==
    /\ eng.stage = "decrypted"
    /\ eng.envelope # << >>
    /\ eng.damage = "none"
    /\ eng.password2 = eng.password
    /\ eng.data = << >>
    /\ eng.result.ok

\* PKCS#7: the last byte p is in 1..16 and the last p bytes are all p
Pkcs7Valid(padded) ==
    /\ Len(padded) > 0
    /\ Len(padded) % 16 = 0
    /\ padded[Len(padded)] \in 1..16
    /\ \A i \in 1..Len(padded) :
           i > Len(padded) - padded[Len(padded)] => padded[i] = padded[Len(padded)]

\* what the ciphertext of an envelope decrypts to under a password, before
\* the padding is removed: has no valid padding
PaddingInvalid(blob, password) ==
    LET salt == SubSeq(blob, 13, 28)
        iv == SubSeq(blob, 29, 44)
        ciphertext == SubSeq(blob, 45, Len(blob))
    IN  \/ Len(ciphertext) % 16 # 0
        \/ ~Pkcs7Valid(CbcDecrypt(Pbkdf2(password, salt), iv, ciphertext))

\* the envelope was decrypted with another password, or after its ciphertext
\* was damaged
C5_Case ==
    /\ eng.stage = "decrypted"
    /\ eng.envelope # << >>
    /\ \/ eng.damage = "none" /\ eng.password2 # eng.password
       \/ eng.damage \in CiphertextDamage
    /\ PaddingInvalid(eng.blob, eng.password2)

\* C5: decrypting with another password, or a damaged ciphertext, fails with
\* 'Incorrect password or corrupted data' whenever the padding found is
\* invalid, and returns no bytes then; the message is the same for both.
C5_WrongPasswordSignalled ==
    C5_Case => eng.result = Raised(ErrIncorrectPassword, TRUE)

C5_Witness ==
    /\ C5_Case
    /\ eng.damage = "none"
    /\ eng.password2 # eng.password
    /\ eng.result.error = ErrIncorrectPassword

\* C6: unpacking an archive packed from k records yields the k (metadata,
\* content) pairs of the records, in their order, for every k >= 0.
C6_ArchiveRoundTrip ==
    ( /\ Done(extract_task)
      /\ Readable(extract_task.origin, extract_task.password)
      /\ AllGood(extract_task.origin)
      /\ extract_task.origin.count = Len(extract_task.origin.records) )
    => extract_task.unpacked
           = [i \in 1..Len(extract_task.origin.records) |->
                 ExpectedPair(extract_task.origin.records[i])]

C6_Witness ==
    /\ Done(extract_task)
    /\ Readable(extract_task.origin, extract_task.password)
    /\ AllGood(extract_task.origin)
    /\ extract_task.origin.count = 2
    /\ Len(extract_task.origin.records) = 2
    /\ Len(extract_task.unpacked) = 2

\* C7: an archive that declares c records and ends after k < c whole records
\* unpacks to those k records, with no error, and the run ends Done with k
\* files written.
C7_TruncatedArchive ==
    ( /\ Done(extract_task)
      /\ Readable(extract_task.origin, extract_task.password)
      /\ AllGood(extract_task.origin)
      /\ extract_task.origin.count > Len(extract_task.origin.records) )
    => LET k == Len(extract_task.origin.records)
           events == extract_task.events
       IN  /\ extract_task.unpacked
                  = [i \in 1..k |-> ExpectedPair(extract_task.origin.records[i])]
           /\ \A e \in 1..Len(events) :
                  events[e].text \notin {"Error", "Error extracting file"}
           /\ Last(events).kind = "finished"
           /\ Last(events).ok
           /\ Len(Last(events).paths) = k
           /\ Cardinality(DOMAIN written)
                  = Cardinality(DOMAIN extract_task.written_before) + k

C7_Witness ==
    /\ Done(extract_task)
    /\ Readable(extract_task.origin, extract_task.password)
    /\ AllGood(extract_task.origin)
    /\ extract_task.origin.count = 5
    /\ Len(extract_task.origin.records) = 2
    /\ Len(extract_task.extracted_files) = 2

\* a whole archive, readable, with a record that cannot be unpacked or written
C8_Case ==
    /\ Done(extract_task)
    /\ Readable(extract_task.origin, extract_task.password)
    /\ extract_task.origin.count = Len(extract_task.origin.records)
    /\ ~AllGood(extract_task.origin)

\* C8: a record that cannot be unpacked or written gives exactly one 'Error
\* extracting file i' status and no file; every other record, the later
\* ones included, is written; the run ends Done and lists exactly the files
\* written.
C8_RecordFailureIsolated ==
    C8_Case
    => LET records == extract_task.origin.records
           events == extract_task.events
           good == SelectSeq(records, IsGood)
           paths == Last(events).paths
           Count(text, i) ==
               Cardinality({ e \in 1..Len(events) :
                                events[e].text = text /\ events[e].num = i })
       IN  /\ Last(events).kind = "finished"
           /\ Last(events).ok
           /\ \A i \in 1..Len(records) :
                  /\ Count("Error extracting file", i)
                         = IF IsGood(records[i]) THEN 0 ELSE 1
                  /\ Count("Extracted", i) = IF IsGood(records[i]) THEN 1 ELSE 0
           /\ Len(paths) = Len(good)
           /\ \A j \in 1..Len(good) :
                  /\ Resolve(paths[j]) \in DOMAIN written
                  /\ Resolve(paths[j]) \notin DOMAIN extract_task.written_before
                  /\ written[Resolve(paths[j])] = InputFile(good[j].file).content
           /\ Cardinality(DOMAIN written)
                  = Cardinality(DOMAIN extract_task.written_before) + Len(good)

C8_Witness ==
    /\ C8_Case
    /\ Len(extract_task.origin.records) = 3
    /\ ~IsGood(extract_task.origin.records[2])
    /\ Len(extract_task.extracted_files) = 2

\* C9: decrypt_data on bytes that do not begin with the magic marker fails
\* with 'Invalid data format' and derives no key and decrypts nothing.
C9_BadMagic ==
    ( /\ eng.stage = "decrypted"
      /\ ~StartsWith(eng.blob, ENCRYPTION_HEADER) )
    => eng.result = Raised(ErrInvalidFormat, FALSE)

C9_Witness ==
    /\ eng.stage = "decrypted"
    /\ eng.damage = "magic"
    /\ ~StartsWith(eng.blob, ENCRYPTION_HEADER)
    /\ eng.result.error = ErrInvalidFormat

\* the decoded payload begins with the magic marker and no password was given
C10_Case ==
    /\ Done(extract_task)
    /\ extract_task.password = ""
    /\ StartsWith(extract_task.data, ENCRYPTION_HEADER)

\* C10: such a run ends Failed with the message that asks for a password,
\* calls decrypt_data never and writes no file.
C10_MissingPassword ==
    C10_Case
    => /\ Last(extract_task.events) = Finished(FALSE, ErrNeedPassword, << >>)
       /\ ~extract_task.decrypt_called
       /\ \A e \in 1..Len(extract_task.events) :
              extract_task.events[e].text # "Decrypting data..."
       /\ extract_task.extracted_files = << >>
       /\ written = extract_task.written_before

C10_Witness ==
    /\ C10_Case
    /\ extract_task.origin.password = "secret"
    /\ Last(extract_task.events).detail = ErrNeedPassword

\* the payload of the hide run, archive or envelope, does not fit the carrier
C11_Case ==
    /\ Done(hide_task)
    /\ MaxBytes(images[hide_task.image_path]) < Len(hide_task.combined_data) + 4

\* C11: when the final payload of n bytes does not fit, floor(w*h*3/8) < n+4,
\* the hide run ends Failed with the 'image is too small' message,
\* hide_data_in_image is never called and no image is written or changed.
C11_CapacityFailureFirst ==
    C11_Case
    => /\ Last(hide_task.events) = Finished(FALSE, ErrTooSmall, << >>)
       /\ ~hide_task.embed_called
       /\ \A e \in 1..Len(hide_task.events) :
              hide_task.events[e].text # "Hiding data in image..."
       /\ images = hide_task.images_before

C11_Witness ==
    /\ C11_Case
    /\ hide_task.password = "secret"
    /\ Last(hide_task.events).detail = ErrTooSmall

\* the positions of the finished events among the events of a run
FinishedAt(events) == { e \in 1..Len(events) : events[e].kind = "finished" }

\* one finished event, and it is the last event
EndsWithFinished(task) ==
    IF Done(task)
    THEN FinishedAt(task.events) = { Len(task.events) }
    ELSE FinishedAt(task.events) = {}

\* C12: a run emits exactly one finished event, as its last event: success
\* with the output image path for a hide that ends Done, success with the
\* written file paths for an extract that ends Done, failure with a message
\* otherwise; before the end of the run there is none.
C12_OneFinishedEvent ==
    /\ EndsWithFinished(hide_task)
    /\ EndsWithFinished(extract_task)
    /\ Done(hide_task)
       => LET finished == Last(hide_task.events)
          IN  IF finished.ok
              THEN /\ finished.detail = hide_task.output_path
                   /\ images[hide_task.output_path] # NoImage
              ELSE /\ finished.detail \in {ErrTooSmall, ErrOperationFailed}
                   /\ finished.paths = << >>
    /\ Done(extract_task)
       => LET finished == Last(extract_task.events)
          IN  IF finished.ok
              THEN /\ finished.paths = extract_task.extracted_files
                   /\ \A i \in 1..Len(finished.paths) :
                          Resolve(finished.paths[i]) \in DOMAIN written
              ELSE /\ finished.detail \in
                          {ErrNoHiddenData, ErrNeedPassword, ErrIncorrectPassword}
                   /\ finished.paths = << >>

C12_Witness ==
    /\ Done(hide_task)
    /\ Last(hide_task.events).ok
    /\ Done(extract_task)
    /\ ~Last(extract_task.events).ok
    /\ Last(extract_task.events).detail = ErrIncorrectPassword

\* a task of the slot was started and its finished event is not handled yet
InFlight(task) == task.pc \notin {"none", "handled"}

\* the step starts a hide task, an extract task
StartsHide ==
    /\ started' # started
    /\ hide_task'.pc = "prepare"
    /\ hide_task'.i = 0
    /\ extract_task' = extract_task

StartsExtract ==
    /\ started' # started
    /\ extract_task'.pc = "decode"
    /\ hide_task' = hide_task

\* C13: from the start of a hide task until its finished event is handled
\* the hide tab is disabled and no second hide task is started; the same
\* for the extract task and the extract tab.
C13_OneTaskPerSlot ==
    /\ [](InFlight(hide_task) => ~window.hide_tab)
    /\ [](InFlight(extract_task) => ~window.extract_tab)
    /\ [][ /\ StartsHide => ~InFlight(hide_task)
           /\ StartsExtract => ~InFlight(extract_task) ]_vars

\* the hide task has emitted finished, the slot is not free yet and another
\* run may still be started
C13_Witness ==
    /\ hide_task.pc = "emitted"
    /\ ~window.hide_tab
    /\ window.extract_tab
    /\ started < MaxRuns

\* the status events of a run, and their texts
Statuses(events) == SelectSeq(events, LAMBDA e : e.kind = "status")

Texts(events) == [j \in 1..Len(Statuses(events)) |-> Statuses(events)[j].text]

IsPrefix(a, b) == Len(a) <= Len(b) /\ a = SubSeq(b, 1, Len(a))

\* the status texts of a whole hide run of n files: one per file packed,
\* one for the encryption if there is a password, then the capacity failure
\* or the embedding and its outcome
HideSequences(n, password) ==
    { [j \in 1..n |-> "Preparing file"]
          \o (IF password # "" THEN << "Encrypting data..." >> ELSE << >>)
          \o tail :
      tail \in { << "Error" >>,
                 << "Hiding data in image...", "Files successfully hidden in image" >>,
                 << "Hiding data in image...", "Failed to hide files in image" >> } }

PositionOf(events, text) ==
    LET at == { j \in 1..Len(Texts(events)) : Texts(events)[j] = text }
    IN  IF at = {} THEN 0 ELSE CHOOSE j \in at : \A other \in at : j <= other

\* C15: an extract run decodes the pixels first; it enters the decryption
\* step if and only if the decoded bytes begin with the magic marker;
\* it unpacks the records, in archive order, only after the decoding and
\* the decryption, if any, have succeeded; a failure of the decoding or of
\* the decryption ends the run Failed with nothing unpacked.
C15_ExtractSequence ==
    InFlight(extract_task)
    => LET st == Statuses(extract_task.events)
           magic == StartsWith(extract_task.decoded, ENCRYPTION_HEADER)
           found == PositionOf(extract_task.events, "Found hidden files")
           failed == Done(extract_task) /\ ~Last(extract_task.events).ok
       IN  /\ Len(st) >= 1 => st[1].text = "Extracting data from image..."
           /\ \A j \in 1..Len(st) :
                  /\ st[j].text = "Decrypting data..." => j = 2 /\ magic
                  /\ st[j].text = "Found hidden files"
                         => /\ extract_task.decoded # << >>
                            /\ j = IF magic THEN 3 ELSE 2
                            /\ magic => /\ st[2].text = "Decrypting data..."
                                        /\ decrypt_data(extract_task.decoded,
                                                        extract_task.password).ok
                  /\ st[j].text \in {"Extracted", "Error extracting file"}
                         => found > 0 /\ st[j].num = j - found
                  /\ st[j].text \in {"Error", "Successfully extracted files"}
                         => j = Len(st) /\ Done(extract_task)
           /\ extract_task.decrypt_called => magic /\ extract_task.password # ""
           /\ extract_task.pc = "unpack" => found > 0
           /\ Done(extract_task) /\ magic
                  => \/ extract_task.decrypt_called
                     \/ Last(extract_task.events).detail = ErrNeedPassword
           /\ failed
                  => /\ extract_task.decoded = << >> \/ magic
                     /\ found = 0
                     /\ extract_task.unpacked = << >>
                     /\ written = extract_task.written_before
           /\ Done(extract_task) /\ ~failed => found > 0

C15_Witness ==
    /\ Done(extract_task)
    /\ StartsWith(extract_task.decoded, ENCRYPTION_HEADER)
    /\ extract_task.decrypt_called
    /\ Len(extract_task.unpacked) = 2
    /\ Last(extract_task.events).ok

\* the values of the progress events of a run, in the order emitted
ProgressValues(events) ==
    LET progress == SelectSeq(events, LAMBDA e : e.kind = "progress")
    IN  [j \in 1..Len(progress) |-> progress[j].num]

NonDecreasing(values) ==
    \A j \in 1..Len(values) : \A l \in 1..Len(values) : j <= l => values[j] <= values[l]

\* the event at position e comes after a status with this text
After(events, e, text) == \E d \in 1..(e - 1) : events[d].text = text

\* C16: within a run the progress values are non-decreasing and in 0..100;
\* in hide the values of the preparation are at most 50 and the value after
\* the embedding is 100; in extract 30 follows the decoding, 50 the
\* decryption phase, and the values of the unpacking are in 50..100.
C16_ProgressMonotonic ==
    /\ \A task \in {hide_task, extract_task} :
           /\ NonDecreasing(ProgressValues(task.events))
           /\ \A j \in 1..Len(ProgressValues(task.events)) :
                  ProgressValues(task.events)[j] \in 0..100
    /\ \A e \in 1..Len(hide_task.events) :
           hide_task.events[e].kind = "progress"
           => IF After(hide_task.events, e, "Hiding data in image...")
              THEN hide_task.events[e].num = 100
              ELSE hide_task.events[e].num <= 50
    /\ hide_task.embed_called => Last(ProgressValues(hide_task.events)) = 100
    /\ LET values == ProgressValues(extract_task.events)
           events == extract_task.events
       IN  /\ Len(values) >= 1 => values[1] = 30
           /\ Len(values) >= 2 => values[2] = 50
           /\ \A j \in 3..Len(values) : values[j] \in 50..100
           /\ extract_task.decoded # << >> => Len(values) >= 1
           /\ \A e \in 1..Len(events) :
                  events[e].kind = "progress"
                  => /\ After(events, e, "Extracting data from image...")
                     /\ events[e].num > 50 => After(events, e, "Found hidden files")
                     /\ After(events, e, "Found hidden files") => events[e].num >= 50

\* a hide run of two files has embedded, and an extract run has unpacked
\* two records of an archive
C16_Witness ==
    /\ hide_task.embed_called
    /\ Len(ProgressValues(hide_task.events)) = 3
    /\ Done(extract_task)
    /\ Len(ProgressValues(extract_task.events)) = 4

\* the number of statuses of a run with this text
CountOf(events, text) ==
    Cardinality({ j \in 1..Len(Texts(events)) : Texts(events)[j] = text })

\* the payload of the hide run is complete: the run is at the capacity
\* check or past it
PayloadReady(task) == task.pc \in {"check", "embed"} \/ Done(task)

C18_CapacityChecksAgree ==
    /\ Done(hide_task) /\ hide_task.embed_called
           => Last(hide_task.events).detail # ErrOperationFailed
    /\ hide_task.pc = "embed"
           => (can_hide_data(images[hide_task.image_path], Len(hide_task.combined_data))
                  <=> hide_data_in_image(images[hide_task.image_path],
                                         hide_task.output_path,
                                         hide_task.combined_data).ok)

\* the run passed the capacity check of _hide_files, called
\* hide_data_in_image and ended with 'Operation failed'
C18_PassedThenRefused ==
    /\ Done(hide_task)
    /\ hide_task.embed_called
    /\ can_hide_data(images[hide_task.image_path], Len(hide_task.combined_data))
    /\ Last(hide_task.events) = Finished(FALSE, ErrOperationFailed, << >>)
    /\ images[hide_task.output_path] = NoImage

\* the least significant bit of channel (b mod 3) of the pixel with
\* row-major index (b div 3), b counted from 0
LsbAt(pixels, b) == pixels[(b \div 3) + 1][(b % 3) + 1] % 2

\* the image extract_data_from_image was applied to
ImageRead == IF eng.stage = "raw" THEN eng.image ELSE eng.hidden.image

\* C19: across both phases of extract_data_from_image the k-th collected
\* bit is the least significant bit of channel (k mod 3) of the pixel with
\* row-major index (k div 3): the second phase resumes where the first
\* ended, no pixel or channel is skipped or read twice.
C19_SingleBitCount ==
    eng.stage \in {"extracted", "raw"}
    => /\ Len(eng.bits) <= 3 * NumPixels(ImageRead)
       /\ \A k \in 0..(Len(eng.bits) - 1) :
              eng.bits[k + 1] = LsbAt(ImageRead.pixels, k)
       /\ eng.extracted
              = [n \in 1..((Len(eng.bits) - 32) \div 8) |->
                    LET Bit(j) == eng.bits[32 + 8 * (n - 1) + j + 1]
                    IN  Bit(0) + 2 * Bit(1) + 4 * Bit(2) + 8 * Bit(3) + 16 * Bit(4)
                            + 32 * Bit(5) + 64 * Bit(6) + 128 * Bit(7)]

\* the second phase has read pixels after the eleven of the first phase
C19_Witness ==
    /\ eng.stage = "extracted"
    /\ Len(eng.data) = 2
    /\ Len(eng.bits) = 48
    /\ ImageRead.width = 7

\* bit b, from 0, of LEN(4 bytes, big-endian) || DATA, each byte expanded
\* least significant bit first, and 0 past the last byte
PayloadBit(data, b) ==
    LET n == Len(data)
        byte == IF b \div 8 < 4
                THEN (n \div (256 ^ (3 - (b \div 8)))) % 256
                ELSE IF b \div 8 < n + 4 THEN data[(b \div 8) - 3]
                ELSE 0
    IN  (byte \div (2 ^ (b % 8))) % 2

FrameKept(carrier, image, n) ==
    /\ image.width = carrier.width
    /\ image.height = carrier.height
    /\ Len(image.pixels) = NumPixels(carrier)
    /\ \A p \in 1..NumPixels(carrier) : \A k \in 1..3 :
          /\ image.pixels[p][k] \div 2 = carrier.pixels[p][k] \div 2
          /\ p > (8 * (n + 4) + 2) \div 3
                 => image.pixels[p][k] = carrier.pixels[p][k]

\* C21: the image hide_data_in_image produces at output_path differs from
\* the carrier only in the least significant bits of the channels of the
\* first ceil(8*(n+4)/3) pixels: the upper 7 bits of every channel, every
\* channel of every later pixel and the dimensions are those of the carrier.
C21_EmbedFrame ==
    eng.stage \in {"hidden", "extracted"} /\ eng.hidden.ok
    => FrameKept(eng.image, eng.hidden.image, Len(eng.data))

\* hide_data_in_image returned True and a pixel after the embedded range
\* has, in the image it saved, a channel that is not the carrier's
C21_LaterPixelChanged ==
    /\ eng.stage = "hidden"
    /\ eng.hidden.ok
    /\ \E p \in 1..NumPixels(eng.image) :
          /\ p > (8 * (Len(eng.data) + 4) + 2) \div 3
          /\ eng.hidden.image.pixels[p] # eng.image.pixels[p]

\* The frame holds for the array the embedding loop leaves, and for the
\* image saved in a format that keeps every channel value.
C21_ArrayFrame ==
    eng.stage \in {"hidden", "extracted"} /\ eng.hidden.ok
    => /\ FrameKept(eng.image, [eng.image EXCEPT !.pixels = eng.hidden.pixels],
                    Len(eng.data))
       /\ eng.output_path \notin JpegPaths
              => FrameKept(eng.image, eng.hidden.image, Len(eng.data))

(***************************************************************************)
(* Truncated payload                                                       *)
(***************************************************************************)
\* the length announced by the first 32 channel bits of img, four bytes
\* big-endian, each byte least significant bit first; a bit the image does
\* not have counts as 0
AnnouncedLength(img) ==
    LET Bit(b) == IF b < 3 * NumPixels(img) THEN LsbAt(img.pixels, b) ELSE 0
        Byte(q) == Bit(8 * q) + 2 * Bit(8 * q + 1) + 4 * Bit(8 * q + 2)
                       + 8 * Bit(8 * q + 3) + 16 * Bit(8 * q + 4)
                       + 32 * Bit(8 * q + 5) + 64 * Bit(8 * q + 6)
                       + 128 * Bit(8 * q + 7)
    IN  FromBytes(<< Byte(0), Byte(1), Byte(2), Byte(3) >>)

\* C22: when the image has fewer than 32 + 8*n channel bits, n being the
\* length announced by its first 32 bits, extract_data_from_image reads up
\* to the last pixel and returns, without raising, the whole bytes made of
\* the bits collected after the 32-bit prefix; where the image has the 32
\* bits of the prefix the result is shorter than n bytes.
C22_TruncatedPayload ==
    LET img == ImageRead
        have == 3 * NumPixels(img)
        n == AnnouncedLength(img)
    IN  eng.stage \in {"extracted", "raw"} /\ have < 32 + 8 * n
        => /\ Len(eng.bits) = have
           /\ \A k \in 0..(have - 1) : eng.bits[k + 1] = LsbAt(img.pixels, k)
           /\ eng.extracted
                  = [q \in 1..(Max(0, have - 32) \div 8) |->
                        LET Bit(j) == LsbAt(img.pixels, 32 + 8 * (q - 1) + j)
                        IN  Bit(0) + 2 * Bit(1) + 4 * Bit(2) + 8 * Bit(3)
                                + 16 * Bit(4) + 32 * Bit(5) + 64 * Bit(6)
                                + 128 * Bit(7)]
           /\ have >= 32 => Len(eng.extracted) < n

\* an image as found announces more bytes than it holds, and the bytes it
\* does hold after the prefix were returned
C22_Witness ==
    /\ eng.stage = "raw"
    /\ 3 * NumPixels(eng.image) < 32 + 8 * AnnouncedLength(eng.image)
    /\ Len(eng.extracted) = 2
    /\ Len(eng.bits) = 48

\* an image too small for the 32-bit prefix gives the empty result
C22_NoPrefix ==
    /\ eng.stage = "raw"
    /\ 3 * NumPixels(eng.image) < 32
    /\ eng.extracted = << >>

(***************************************************************************)
(* The record                                                              *)
(***************************************************************************)
\* name is path from after its last separator: it holds no separator and
\* what precedes it in path is empty or ends with one
IsBaseNameOf(name, path) ==
    LET before == Len(path) - Len(name)
    IN  /\ before >= 0
        /\ SubSeq(path, before + 1, Len(path)) = name
        /\ \A i \in 1..Len(name) : name[i] # Slash
        /\ before > 0 => path[before] = Slash

\* C23: extract_file_data(prepare_file_data(path)) returns metadata whose
\* filename is the base name of path and whose size is the length of the
\* content, and content equal to the file's; the record is METALEN (4
\* bytes, big-endian), then METALEN bytes of metadata, then the content.
C23_RecordRoundTrip ==
    /\ eng.stage \in {"prepared", "extracted"}
       => LET record == eng.record
              b(i) == record[i]
              metalen == ((b(1) * 256 + b(2)) * 256 + b(3)) * 256 + b(4)
          IN  /\ Len(record) = 4 + metalen + Len(eng.file.content)
              /\ SubSeq(record, 4 + metalen + 1, Len(record)) = eng.file.content
              /\ \E name \in { SubSeq(eng.file.path, i, Len(eng.file.path)) :
                                  i \in 1..Len(eng.file.path) } :
                    /\ IsBaseNameOf(name, eng.file.path)
                    /\ SubSeq(record, 5, 4 + metalen)
                           = JsonDumps([filename |-> name,
                                        size |-> Len(eng.file.content),
                                        timestamp |-> eng.timestamp])
    /\ eng.stage = "extracted"
       => /\ eng.result.ok
          /\ eng.result.has_filename
          /\ IsBaseNameOf(eng.result.metadata.filename, eng.file.path)
          /\ eng.result.metadata.size = Len(eng.file.content)
          /\ eng.result.metadata.timestamp = eng.timestamp
          /\ eng.result.content = eng.file.content

\* a file in a directory, whose content holds the bytes that close the
\* metadata, came back
C23_Witness ==
    /\ eng.stage = "extracted"
    /\ eng.file.path = << Slash, 121, Slash, 98, Dot, 99 >>
    /\ eng.file.content = << BraceClose, Comma >>
    /\ eng.result.ok
    /\ eng.result.metadata.filename = << 98, Dot, 99 >>

(***************************************************************************)
(* The files an extract run writes                                         *)
(***************************************************************************)
\* the step appends a path to extracted_files: a record was written and
\* reported as extracted
WritesRecord == Len(extract_task'.extracted_files) = Len(extract_task.extracted_files) + 1

\* C24: for every file an extract run writes and reports as extracted, the
\* number of content bytes written is the size recorded in the metadata of
\* its record, also when a RECLEN or the COUNT of the archive points past
\* the end of the decoded data.
C24_WrittenSizeIsRecorded ==
    [][ WritesRecord
        => Len(written'[Resolve(Last(extract_task'.extracted_files))])
               = Last(extract_task'.unpacked).metadata.size ]_vars

\* the run on an archive that lost its last byte ended Done with one file
\* per record, and the last file is shorter than its metadata says
C24_ShortFileReported ==
    /\ Done(extract_task)
    /\ Last(extract_task.events).ok
    /\ extract_task.origin.damage = "cut_one"
    /\ extract_task.origin.password = ""
    /\ Len(extract_task.extracted_files) = Len(extract_task.origin.records)
    /\ Len(written[Resolve(Last(extract_task.extracted_files))])
           < Last(extract_task.unpacked).metadata.size

\* C25: a run that ends Failed ended on one of the failures that precede
\* the unpacking (no hidden data, a missing password, a wrong password or
\* corrupted data) and has written no file; a run that has begun to unpack
\* ends Done; files are written during the unpacking only.
C25_FailedWritesNothing ==
    LET events == extract_task.events
        found == PositionOf(events, "Found hidden files")
        failed == Done(extract_task) /\ ~Last(events).ok
    IN  /\ failed
           => /\ Last(events).detail
                     \in {ErrNoHiddenData, ErrNeedPassword, ErrIncorrectPassword}
              /\ found = 0
              /\ extract_task.extracted_files = << >>
              /\ written = extract_task.written_before
        /\ Done(extract_task) /\ found > 0 => Last(events).ok
        /\ extract_task.pc # "none" /\ written # extract_task.written_before
           => found > 0

\* a run on a damaged envelope reached the decryption and ended Failed
C25_Witness ==
    /\ Done(extract_task)
    /\ ~Last(extract_task.events).ok
    /\ extract_task.decrypt_called
    /\ extract_task.origin.damage = "flip_last"
    /\ extract_task.password = "secret"
    /\ written = NoFiles

\* the k-th path the uniqueness loop tries for joined: joined itself, then
\* base_1ext, base_2ext, ...
Candidate(joined, k) ==
    IF k = 0 THEN joined
    ELSE Splitext(joined)[1] \o << Underscore >> \o Digits(k) \o Splitext(joined)[2]

\* C26: each record is written to a path that did not exist when it was
\* chosen, the first free one of name, name_1, name_2, ...; the files that
\* were there keep their content; the paths an extract run lists are
\* pairwise distinct files.
C26_NeverOverwrites ==
    /\ [](\A a, b \in 1..Len(extract_task.extracted_files) :
              a # b => Resolve(extract_task.extracted_files[a])
                           # Resolve(extract_task.extracted_files[b]))
    /\ [][ WritesRecord
           => LET path == Last(extract_task'.extracted_files)
                  joined == PathJoin(OutputDir,
                                     Last(extract_task'.unpacked).metadata.filename)
                  Taken(p) == Resolve(p) \in DOMAIN written \cup Dirs
              IN  /\ ~Taken(path)
                  /\ \E k \in 0..(Cardinality(DOMAIN written) + 2) :
                        /\ path = Candidate(joined, k)
                        /\ \A j \in 0..(k - 1) : Taken(Candidate(joined, j))
                  /\ DOMAIN written' = DOMAIN written \cup {Resolve(path)}
                  /\ \A p \in DOMAIN written : written'[p] = written[p] ]_vars

\* the directory held a file "a" and the archive two records named "a":
\* they were written as a_1 and a_2
C26_Witness ==
    /\ Done(extract_task)
    /\ extract_task.written_before # NoFiles
    /\ extract_task.extracted_files
           = << OutputDir \o << Slash, 97, Underscore, 49 >>,
                OutputDir \o << Slash, 97, Underscore, 50 >> >>
    /\ written[Resolve(PathJoin(OutputDir, << 97 >>))] = << 9 >>

\* C27: every path an extract run writes is a direct child of the output
\* directory, whatever the archive found in the image, archives whose
\* metadata filename holds separators or '..' included.
C27_WritesInsideOutputDir ==
    extract_task.pc # "none"
    => /\ \A p \in DOMAIN written \ DOMAIN extract_task.written_before :
              Parent(p) = Resolve(OutputDir)
       /\ \A k \in 1..Len(extract_task.extracted_files) :
              Parent(Resolve(extract_task.extracted_files[k])) = Resolve(OutputDir)

\* the run ended Done and reports a file it wrote in the root directory,
\* the parent of the output directory
C27_WroteOutside ==
    /\ Done(extract_task)
    /\ Last(extract_task.events).ok
    /\ extract_task.origin.damage = "renamed"
    /\ << << 101 >> >> \in DOMAIN written
    /\ \E k \in 1..Len(extract_task.extracted_files) :
          Resolve(extract_task.extracted_files[k]) = << << 101 >> >>

(***************************************************************************)
(* The worker threads                                                      *)
(***************************************************************************)
\* the thread of the task is running: started, run() has not yet emitted
\* its finished event
Running(task) == task.pc \notin {"none", "emitted", "handled"}

\* C28: at most one WorkerThread is running at any time, the hide and the
\* extract slot taken together, and the worker reference of the window
\* designates the running task.
C28_AtMostOneWorker ==
    /\ ~(Running(hide_task) /\ Running(extract_task))
    /\ Running(hide_task) => window.worker = "hide"
    /\ Running(extract_task) => window.worker = "extract"

\* an extract task was started while the hide task runs: both threads run
\* and the window refers to the extract task only
C28_HideLeftUnreferenced ==
    /\ Running(hide_task)
    /\ Running(extract_task)
    /\ ~window.hide_tab
    /\ window.worker = "extract"

\* C29: every started task emits its finished event, Done or Failed, and
\* the handling of that event enables again the tab that the start
\* disabled: no tab stays disabled for ever.
C29_TasksTerminate ==
    /\ Running(hide_task)
           ~> (hide_task.pc = "emitted" /\ Last(hide_task.events).kind = "finished")
    /\ hide_task.pc = "emitted" ~> (hide_task.pc = "handled" /\ window.hide_tab)
    /\ ~window.hide_tab ~> window.hide_tab
    /\ Running(extract_task)
           ~> (extract_task.pc = "emitted"
                   /\ Last(extract_task.events).kind = "finished")
    /\ extract_task.pc = "emitted"
           ~> (extract_task.pc = "handled" /\ window.extract_tab)
    /\ ~window.extract_tab ~> window.extract_tab

\* a hide task that ended Failed and an extract task that ended Done have
\* both been handled, and both tabs are enabled again
C29_Witness ==
    /\ hide_task.pc = "handled"
    /\ ~Last(hide_task.events).ok
    /\ extract_task.pc = "handled"
    /\ Last(extract_task.events).ok
    /\ window.hide_tab
    /\ window.extract_tab

\* the run of the task ended Done and the last progress value it emitted
\* is 100
FullProgress(task) ==
    Done(task) /\ Last(task.events).ok
    => LET values == ProgressValues(task.events)
       IN  Len(values) > 0 /\ values[Len(values)] = 100

\* C30: in every hide or extract run whose finished event reports success,
\* the last progress value emitted before that event is 100, also for an
\* archive that declares zero records or ends before the declared count.
C30_DoneAtFullProgress ==
    /\ FullProgress(hide_task)
    /\ FullProgress(extract_task)

\* the archive declares three records and holds two: both were written,
\* the run ended Done and its last progress value is 83
C30_DoneBelowFull ==
    /\ Done(extract_task)
    /\ Last(extract_task.events).ok
    /\ extract_task.num_files = 3
    /\ Len(extract_task.extracted_files) = 2
    /\ Last(ProgressValues(extract_task.events)) = 83

\* the archive declares no record: the run ended Done at progress 50
C30_EmptyArchiveAtHalf ==
    /\ Done(extract_task)
    /\ Last(extract_task.events).ok
    /\ extract_task.num_files = 0
    /\ Last(ProgressValues(extract_task.events)) = 50

====
